---- MODULE Spec2Model ----
(***************************************************************************)
(* Model of the example DRS provider (src/main.py): six FastAPI handlers.  *)
(* The only server-side state the handlers touch is the file system: the   *)
(* working directory, where get_examples generates the archive, and the    *)
(* examples directory beside main.py.  Every handler is one atomic step   *)
(* from a request to a response.                                           *)
(*                                                                         *)
(* A string concatenation a + b is modelled as the sequence of its         *)
(* fragments <<a, b>>: two URLs or paths are equal in the model exactly    *)
(* when they are built from the same fragments.                            *)
(***************************************************************************)
EXTENDS Integers, Sequences, FiniteSets, TLC

VARIABLES
    fs,        \* the file system: path -> file content (kind "absent" when missing)
    lastReq,   \* the request handled last
    lastResp,  \* the response to it
    probe      \* observer: one earlier exchange, and whether the archive existed then

vars == <<fs, lastReq, lastResp, probe>>

---------------------------------------------------------------------------
(* Inputs *)

\* The object ids the source names (the bundle and its two members).
ZipId == "exampleszip.zip"
ExampleFiles == <<"HPA.csv", "TestPhenotypes_3.csv">>

\* Ids no line of the source names: nothing is stored under them.
UnknownIds == {"missing.csv"}

\* The ids the handlers tell apart: the bundle and its two members.
KnownIds == {ZipId} \cup {ExampleFiles[i] : i \in DOMAIN ExampleFiles}

ObjectIds == KnownIds \cup UnknownIds

AccessIds == {"", "signed"}

\* What an Authorization collaborator would say of the posted passport.
PassportVerdicts == {"valid", "invalid", "denied"}

---------------------------------------------------------------------------
(* File system *)

Range(s) == {s[i] : i \in DOMAIN s}

Absent == [kind |-> "absent", members |-> <<>>, closed |-> TRUE]
CsvFile(name) == [kind |-> "csv", members |-> <<name>>, closed |-> TRUE]
JsonFile(name) == [kind |-> "json", members |-> <<name>>, closed |-> TRUE]

\* pathlib.Path('exampleszip') / ZipFile('exampleszip', 'w'): relative to the cwd.
examples_zip_path == <<"exampleszip">>

\* os.path.join(dirname(abspath(__file__)), "examples", name)
ExamplesPath(name) == <<"examples", name>>

service_info_path == <<"service_info.json">>

Paths ==
    {examples_zip_path, <<ZipId>>, service_info_path}
        \cup {ExamplesPath(id) : id \in ObjectIds}

Exists(f, p) == f[p].kind # "absent"

---------------------------------------------------------------------------
(* Requests and responses *)

NoRequest ==
    [op |-> "none", object_id |-> "", expand |-> FALSE, access_id |-> "",
     passport |-> "none"]

NoResponse == [status |-> 0, body |-> [none |-> TRUE]]

Request(op, object_id, expand, access_id, passport) ==
    [op |-> op, object_id |-> object_id, expand |-> expand,
     access_id |-> access_id, passport |-> passport]

\* An exception that escapes a handler: FastAPI answers 500.
ServerError == [status |-> 500, body |-> [detail |-> "Internal Server Error"]]

Ok(body) == [status |-> 200, body |-> body]

---------------------------------------------------------------------------
(* GET /service-info *)

\* json.load of service_info.json, which ships beside main.py.
service_info_response(f) == Ok([document |-> f[service_info_path]])

---------------------------------------------------------------------------
(* GET /objects/{object_id} *)

FilesUrl(object_id) == <<"http://localhost:8083/files/", object_id>>

access_methods(object_id) ==
    << [type |-> "GET", access_url |-> [url |-> FilesUrl(object_id)]] >>

ContentsObject(name) ==
    [name |-> name, id |-> name, drs_uri |-> "drs://drs.example.org/314159"]

contents(object_id) ==
    IF ~(object_id = ZipId)
    THEN << ContentsObject(object_id) >>
    ELSE << ContentsObject("HPA.csv"), ContentsObject("TestPhenotypes_3.csv") >>

\* example_object.dict(): the fields the handler assigned, over the defaults of
\* the model class.  expand is accepted and not read.
objects_response(object_id, expand) ==
    Ok([model |-> "ExampleMetadata",
        access_methods |-> access_methods(object_id),
        contents |-> contents(object_id)])

---------------------------------------------------------------------------
(* POST /objects/{object_id} *)

\* A default-constructed ProviderExampleObject; no argument is read.
post_objects_response(object_id, expand, passports) ==
    Ok([model |-> "ProviderExampleObject"])

---------------------------------------------------------------------------
(* GET and POST /objects/{object_id}/access/{access_id} *)

get_objects_response(object_id, access_id) ==
    Ok([url |-> FilesUrl(object_id), headers |-> "Authorization: None"])

\* Mutant: the POST handler answers as the GET handler does.
post_objects_access_as_get(object_id, access_id, passports) ==
    Ok([url |-> FilesUrl(object_id), headers |-> "Authorization: None"])

post_objects_access_response(object_id, access_id, passports) ==
    Ok([url |-> <<"http://localhost/object.zip">>, headers |-> "Authorization: None"])

---------------------------------------------------------------------------
(* GET /files/{object_id} *)

\* The members ZipFile.write added before the first missing example file.
RECURSIVE WrittenMembers(_, _)
WrittenMembers(f, i) ==
    IF i > Len(ExampleFiles) \/ ~Exists(f, ExamplesPath(ExampleFiles[i]))
    THEN <<>>
    ELSE <<ExampleFiles[i]>> \o WrittenMembers(f, i + 1)

\* ZipFile('exampleszip', 'w') creates the file; close() runs only when every
\* write succeeded.
GeneratedArchive(f) ==
    [kind |-> "zip",
     members |-> WrittenMembers(f, 1),
     closed |-> Len(WrittenMembers(f, 1)) = Len(ExampleFiles)]

GenerationFails(f) ==
    /\ ~Exists(f, examples_zip_path)
    /\ ~GeneratedArchive(f).closed

\* Mutant: the archive is written to the path that is later opened for reading.
get_examples_fs_writes_read_path(f) ==
    IF ~Exists(f, examples_zip_path)
    THEN [f EXCEPT ![<<ZipId>>] = GeneratedArchive(f)]
    ELSE f

get_examples_fs(f) ==
    IF ~Exists(f, examples_zip_path)
    THEN [f EXCEPT ![examples_zip_path] = GeneratedArchive(f)]
    ELSE f

local_path(object_id) ==
    IF ~(object_id = ZipId) THEN ExamplesPath(object_id) ELSE <<object_id>>

file_type(object_id) ==
    IF ~(object_id = ZipId) THEN "text/csv" ELSE "application/zip"

\* iterfile(): open(local_path) runs while the body is streamed; when it raises,
\* the stream is cut after the 200 status line.
iterfile(f, path) ==
    IF Exists(f, path) THEN [sent |-> f[path], aborted |-> FALSE]
    ELSE [sent |-> Absent, aborted |-> TRUE]

get_examples_response(f, object_id) ==
    IF GenerationFails(f)
    THEN ServerError
    ELSE [status |-> 200,
          media_type |-> file_type(object_id),
          disposition |-> "attachment; filename=examples",
          opened |-> local_path(object_id),
          body |-> iterfile(get_examples_fs(f), local_path(object_id))]

---------------------------------------------------------------------------
(* The state machine *)

\* A deployment: service_info.json beside main.py and the two example files,
\* each of which may be missing; no archive has been generated.
Deployments ==
    {f \in [Paths -> {Absent} \cup {CsvFile(n) : n \in ObjectIds}
                              \cup {JsonFile("service_info.json")}] :
        /\ f[service_info_path] = JsonFile("service_info.json")
        /\ \A id \in ObjectIds :
              f[ExamplesPath(id)] \in
                 (IF id \in Range(ExampleFiles) THEN {Absent, CsvFile(id)} ELSE {Absent})
        /\ f[examples_zip_path] = Absent
        /\ f[<<ZipId>>] = Absent}

Init ==
    /\ fs \in Deployments
    /\ lastReq = NoRequest
    /\ lastResp = NoResponse
    /\ probe = [req |-> NoRequest, resp |-> NoResponse, archived |-> FALSE]

\* What the client saw of one request.  The observer keeps one exchange, and
\* whether the archive existed when it was answered, for comparison with later ones.
Observe(req, resp) ==
    /\ lastReq' = req
    /\ lastResp' = resp
    /\ IF probe.req = NoRequest
       THEN probe' \in {probe, [req |-> req, resp |-> resp,
                               archived |-> Exists(fs, examples_zip_path)]}
       ELSE probe' = probe

service_info ==
    /\ fs' = fs
    /\ Observe(Request("service_info", "", FALSE, "", "none"),
               service_info_response(fs))

objects ==
    \E object_id \in ObjectIds, expand \in BOOLEAN :
        /\ fs' = fs
        /\ Observe(Request("objects", object_id, expand, "", "none"),
                   objects_response(object_id, expand))

post_objects ==
    \E object_id \in ObjectIds, expand \in BOOLEAN, passports \in PassportVerdicts :
        /\ fs' = fs
        /\ Observe(Request("post_objects", object_id, expand, "", passports),
                   post_objects_response(object_id, expand, passports))

get_objects ==
    \E object_id \in ObjectIds, access_id \in AccessIds :
        /\ fs' = fs
        /\ Observe(Request("get_objects", object_id, FALSE, access_id, "none"),
                   get_objects_response(object_id, access_id))

post_objects_access ==
    \E object_id \in ObjectIds, access_id \in AccessIds, passports \in PassportVerdicts :
        /\ fs' = fs
        /\ Observe(Request("post_objects_access", object_id, FALSE, access_id, passports),
                   post_objects_access_response(object_id, access_id, passports))

get_examples ==
    \E object_id \in ObjectIds :
        /\ fs' = get_examples_fs(fs)
        /\ Observe(Request("get_examples", object_id, FALSE, "", "none"),
                   get_examples_response(fs, object_id))

Next ==
    \/ service_info
    \/ objects
    \/ post_objects
    \/ get_objects
    \/ post_objects_access
    \/ get_examples

Spec == Init /\ [][Next]_vars

---------------------------------------------------------------------------
(* Vocabulary of the claims *)

NotFoundError(r) == r.status = 404
UnauthorizedError(r) == r.status = 401
CyclicBundleError(r) == r.status = 500

ReturnsObject(r) == "model" \in DOMAIN r.body
ReturnsUrl(r) == "url" \in DOMAIN r.body

\* The ids of a contents list, in order.
Ids(cs) == [i \in DOMAIN cs |-> cs[i].id]

\* The object graph the service presents: an object's children are the ids of
\* the contents it is served with; an object served with contents is a bundle.
ChildIds(id) == Ids(contents(id))
IsBundle(id) == Len(contents(id)) > 0
HasNestedBundle(id) == \E c \in Range(ChildIds(id)) : IsBundle(c)

\* Every object reachable from the set S in one or more steps.
RECURSIVE Descendants(_)
Descendants(S) ==
    LET T == S \cup UNION {Range(ChildIds(x)) : x \in S}
    IN  IF T = S THEN UNION {Range(ChildIds(x)) : x \in S} ELSE Descendants(T)

OnCycle(id) == id \in Descendants({id})

\* The blobs below id in depth-first, left-to-right order; a bundle already on
\* the current path is not entered again.
RECURSIVE ExpandBlobs(_, _)
RECURSIVE ExpandAll(_, _)
ExpandBlobs(id, path) ==
    IF ~IsBundle(id) THEN <<id>>
    ELSE IF id \in path THEN <<>>
    ELSE ExpandAll(ChildIds(id), path \cup {id})
ExpandAll(ids, path) ==
    IF ids = <<>> THEN <<>>
    ELSE ExpandBlobs(Head(ids), path) \o ExpandAll(Tail(ids), path)

\* The access_ids an object's access methods carry.
AccessIdsOf(id) ==
    {m.access_id : m \in {x \in Range(access_methods(id)) : "access_id" \in DOMAIN x}}

AllDirect(id) == \A m \in Range(access_methods(id)) : "access_url" \in DOMAIN m

NonEmptyUrl(u) == Len(u) > 0 /\ u[1] # ""

\* a is the GET and b the POST request of one path.
GetPostPair(a, b) ==
    /\ a.object_id = b.object_id
    /\ a.access_id = b.access_id
    /\ a.expand = b.expand
    /\ \/ a.op = "objects" /\ b.op = "post_objects"
       \/ a.op = "get_objects" /\ b.op = "post_objects_access"

DrsOps == {"service_info", "objects", "post_objects", "get_objects", "post_objects_access"}

---------------------------------------------------------------------------
(* Claims *)

\* C1: get-object on an object id that is not stored returns NotFoundError
\* (404) and no DrsObject, for either value of expand.
C1_AbsentIdNotFound ==
    (lastReq.op = "objects" /\ lastReq.object_id \notin KnownIds)
        => (NotFoundError(lastResp) /\ ~ReturnsObject(lastResp))

\* C2: a passport-carrying operation invoked with an invalid or denied
\* passport returns UnauthorizedError and neither object content nor a URL.
C2_DeniedPassportUnauthorized ==
    (/\ lastReq.op \in {"post_objects", "post_objects_access"}
     /\ lastReq.passport \in {"invalid", "denied"})
        => (/\ UnauthorizedError(lastResp)
            /\ ~ReturnsObject(lastResp)
            /\ ~ReturnsUrl(lastResp))

C5_UnmatchedAccessIdNotFound ==
    lastReq.op = "get_objects"
        => IF lastReq.access_id \in AccessIdsOf(lastReq.object_id)
           THEN ReturnsUrl(lastResp) /\ NonEmptyUrl(lastResp.body.url)
           ELSE NotFoundError(lastResp)

\* C6: for an object whose access methods all carry a direct access_url,
\* every get-access-url request fails with NotFoundError and returns no URL.
C6_DirectMethodsNeverResolved ==
    (lastReq.op = "get_objects" /\ AllDirect(lastReq.object_id))
        => (NotFoundError(lastResp) /\ ~ReturnsUrl(lastResp))

\* C7: get-object on the blob "HPA.csv" with expand=false returns a DrsObject
\* whose contents is absent or empty and whose access_methods has one entry.
C7_BlobHasNoContents ==
    (/\ lastReq.op = "objects"
     /\ lastReq.object_id = "HPA.csv"
     /\ ~lastReq.expand)
        => (/\ ReturnsObject(lastResp)
            /\ ("contents" \in DOMAIN lastResp.body => lastResp.body.contents = <<>>)
            /\ Len(lastResp.body.access_methods) = 1)

C9_AllReadOnly == [][fs' = fs]_vars

\* C9 (amended): the five DRS operations leave the server's state unchanged
\* and answer a repeated request as they answered it before; GET /files
\* changes the state only by creating the archive "exampleszip" when it does
\* not exist yet.
C9_OnlyArchiveCreated ==
    [][/\ lastReq'.op \in DrsOps => fs' = fs
       /\ \A p \in Paths \ {examples_zip_path} : fs'[p] = fs[p]
       /\ Exists(fs, examples_zip_path) => fs' = fs
       /\ (lastReq'.op \in DrsOps /\ probe'.req = lastReq')
             => probe'.resp = lastResp']_vars

\* C9 witness: a DRS request repeated after GET /files generated the archive.
C9_Witness ==
    /\ lastReq.op = "objects"
    /\ probe.req = lastReq
    /\ ~probe.archived
    /\ Exists(fs, examples_zip_path)

\* C10: a GET /files request for "exampleszip.zip" opens for reading the path
\* the handler checked and wrote the archive to, and streams that archive.
C10_StreamsGeneratedArchive ==
    (/\ lastReq.op = "get_examples"
     /\ lastReq.object_id = ZipId
     /\ lastResp.status = 200)
        => (/\ lastResp.opened = examples_zip_path
            /\ ~lastResp.body.aborted
            /\ lastResp.body.sent = fs[examples_zip_path])

====
